---- MODULE Spec2Model ----
(***************************************************************************)
(* Model of the AnnoRepo client library (src/src/lib.rs): the repository   *)
(* client (AnnoRepoClient), the search handle (SearchInfo) and the paged   *)
(* annotation iterator (AnnoIter).                                         *)
(*                                                                         *)
(* Spec        the iterator and foreach_search_result_annotation against   *)
(*             a server holding a fixed table of page responses.           *)
(* FairSpec    Spec with weak fairness of next(): the caller keeps         *)
(*             driving the iterator.                                       *)
(* SpecClient  client construction, URL resolution and create_search.      *)
(***************************************************************************)
EXTENDS Integers, Sequences, FiniteSets, TLC

\* Bounds of the model.
MaxPage == 1
MaxItems == 2
MaxLen == 1
MaxLoc == 3

\* Annotations are opaque JSON values; two distinguishable ones suffice.
Annos == {"A", "B"}

RECURSIVE SeqsUpTo(_, _)
SeqsUpTo(S, n) ==
    IF n = 0 THEN {<<>>}
    ELSE LET shorter == SeqsUpTo(S, n - 1)
         IN shorter \cup {Append(s, x) : s \in {t \in shorter : Len(t) = n - 1}, x \in S}

(***************************************************************************)
(* serde_json::Value, restricted to the shapes a page can take.  An object *)
(* is a map over the keys "items" and "total"; Absent marks a missing key. *)
(***************************************************************************)
Absent == [t |-> "absent"]
Null == [t |-> "null"]
Str(s) == [t |-> "string", s |-> s]
Arr(a) == [t |-> "array", a |-> a]
Obj(items, total) == [t |-> "object", items |-> items, total |-> total]

\* reqwest's Result<Value, reqwest::Error> of one page request.
TransportErr == [t |-> "err"]
Body(v) == [t |-> "ok", body |-> v]

ItemArrays == {Arr(s) : s \in SeqsUpTo(Annos, MaxItems)}

Payloads ==
    {Obj(a, Absent) : a \in ItemArrays}
        \cup {Obj(Arr(<<"A">>), Str("1")),
              Obj(Absent, Str("1")),
              Obj(Str("x"), Absent),
              Null,
              Str("x")}

Responses == {TransportErr} \cup {Body(v) : v \in Payloads}


(***************************************************************************)
(* The server: a table of responses, one per page number.  Pages past the  *)
(* table are the empty page that ends a result set.                        *)
(***************************************************************************)
VARIABLES
    pages,          \* the server's answer to a request for each page
    pc,             \* AnnoIter::new: "idle", "fetching" (awaiting the page), "done"
    start_page,     \* the start_page argument of AnnoIter::new
    newResult,      \* what AnnoIter::new returned (or that it panicked)
    cur_page,       \* AnnoIter.cur_page
    cur_anno,       \* AnnoIter.cur_anno
    annotations,    \* AnnoIter.annotations (VecDeque<Value>)
    lastNext,       \* what the last call of next() returned
    yielded,        \* the items next() has returned so far, in call order
    fetched,        \* the page numbers the iterator has requested, in order
    inflight,       \* page requests of the iterator awaiting their response
    foreachResult,  \* outcome of the last foreach_search_result_annotation
    client,         \* the AnnoRepoClient (base_url, container), once constructed
    given,          \* the arguments AnnoRepoClient::new was called with
    out             \* the last client operation: its request URL and result

iterVars == <<pages, pc, start_page, newResult, cur_page, cur_anno, annotations,
              lastNext, yielded, fetched, inflight, foreachResult>>

clientVars == <<client, given, out>>

vars == <<iterVars, clientVars>>

NoPage == [t |-> "none"]
SomePage(p) == [t |-> "some", p |-> p]
PageArgs == {NoPage} \cup {SomePage(p) : p \in 0..MaxPage}

\* Option<u32>::unwrap_or(0)
unwrap_or_0(page) == IF page.t = "some" THEN page.p ELSE 0

EmptyPage == Body(Obj(Arr(<<>>), Absent))

\* read_search_result_page: the response to GET ...?page={page.unwrap_or(0)}
read_search_result_page(page) ==
    LET p == unwrap_or_0(page)
    IN IF p \in DOMAIN pages THEN pages[p] ELSE EmptyPage

\* Index<&str> for Value (shared access): Null unless an object holds the key.
Index(v, key) ==
    IF v.t = "object"
    THEN (IF key = "items" THEN (IF v.items = Absent THEN Null ELSE v.items)
          ELSE (IF v.total = Absent THEN Null ELSE v.total))
    ELSE Null

\* Result values.
Panic == [kind |-> "Panic"]
ErrReqError == [kind |-> "Err", error |-> "ReqError"]
ErrUrlNotFound == [kind |-> "Err", error |-> "UrlNotFound"]
ErrMalformedAnnotationPage(v) ==
    [kind |-> "Err", error |-> "MalformedAnnotationPage", json |-> v]
NotCalled == [kind |-> "NotCalled"]

(***************************************************************************)
(* annotation_page["items"].take() on a mutable page.  IndexMut<&str>      *)
(* turns Null into an empty object, inserts Null under a missing key and   *)
(* panics on any other non-object; take() then leaves Null in the slot.    *)
(* Gives the taken value and the page as it is left behind.                *)
(***************************************************************************)
take_items(v) ==
    CASE v.t = "null" ->
            [panic |-> FALSE, item |-> Null, page |-> Obj(Null, Absent)]
      [] v.t = "object" ->
            [panic |-> FALSE,
             item |-> (IF v.items = Absent THEN Null ELSE v.items),
             page |-> Obj(Null, v.total)]
      [] OTHER ->
            [panic |-> TRUE, item |-> Null, page |-> v]

\* AnnoIter::new with the cursor left at page 0 whatever start_page is.
AnnoIter_new_result_page0(resp, sp) ==
    IF resp.t = "err"
    THEN Panic
    ELSE LET taken == take_items(resp.body)
         IN IF taken.panic
            THEN Panic
            ELSE IF taken.item.t = "array"
                 THEN [kind |-> "Ok",
                       iter |-> [cur_page |-> 0, cur_anno |-> 0,
                                 annotations |-> taken.item.a]]
                 ELSE ErrMalformedAnnotationPage(taken.page)

\* AnnoIter::new after the page request has been answered with resp.
\* (The url field, a formatted string next() never reads, is left out.)
AnnoIter_new_result(resp, sp) ==
    IF resp.t = "err"
    THEN Panic                                 \* .await.unwrap() on Err
    ELSE LET taken == take_items(resp.body)
         IN IF taken.panic
            THEN Panic
            ELSE IF taken.item.t = "array"
                 THEN [kind |-> "Ok",
                       iter |-> [cur_page |-> sp, cur_anno |-> 0,
                                 annotations |-> taken.item.a]]
                 ELSE ErrMalformedAnnotationPage(taken.page)

\* VecDeque::pop_front
NoneItem == [t |-> "None"]
SomeItem(x) == [t |-> "Some", v |-> x]
NeverCalled == [t |-> "NeverCalled"]

\* VecDeque::pop_back, taking from the wrong end.
pop_back(q) ==
    IF q = <<>>
    THEN [item |-> NoneItem, rest |-> q]
    ELSE [item |-> SomeItem(q[Len(q)]), rest |-> SubSeq(q, 1, Len(q) - 1)]

pop_front(q) ==
    IF q = <<>>
    THEN [item |-> NoneItem, rest |-> q]
    ELSE [item |-> SomeItem(Head(q)), rest |-> Tail(q)]

\* foreach_search_result_annotation: the result and the items f was called on.
foreach_result(resp) ==
    IF resp.t = "err"
    THEN [result |-> Panic, visited |-> <<>>]   \* .await.unwrap() on Err
    ELSE LET items == Index(resp.body, "items")
         IN IF items.t = "array"
            THEN [result |-> [kind |-> "Ok"], visited |-> items.a]
            ELSE [result |-> ErrMalformedAnnotationPage(resp.body), visited |-> <<>>]

\* No iterator yet, nothing requested.
IterInit ==
    /\ pc = "idle"
    /\ start_page = 0
    /\ newResult = NotCalled
    /\ cur_page = 0
    /\ cur_anno = 0
    /\ annotations = <<>>
    /\ lastNext = NeverCalled
    /\ yielded = <<>>
    /\ fetched = <<>>
    /\ inflight = 0
    /\ foreachResult = [page |-> NoPage, result |-> NotCalled, visited |-> <<>>]

\* No client yet.
NoClient == [base_url |-> <<>>, container |-> <<>>, built |-> FALSE]
NoOp == [op |-> "none"]

ClientInit ==
    /\ client = NoClient
    /\ given = [base_url |-> <<>>, container |-> <<>>]
    /\ out = NoOp

Init ==
    /\ pages \in [0..MaxPage -> Responses]
    /\ IterInit
    /\ ClientInit

\* AnnoIter::new up to its await: the request for start_page is sent.
AnnoIter_new_send(sp) ==
    /\ pc = "idle"
    /\ pc' = "fetching"
    /\ start_page' = sp
    /\ fetched' = Append(fetched, sp)
    /\ inflight' = inflight + 1
    /\ UNCHANGED <<pages, newResult, cur_page, cur_anno, annotations,
                   lastNext, yielded, foreachResult, clientVars>>

AnnoIter_new ==
    \E sp \in 0..MaxPage : AnnoIter_new_send(sp)

\* read_search_result_annotations: AnnoIter::new with start_page.unwrap_or(0).
read_search_result_annotations ==
    \E page \in PageArgs : AnnoIter_new_send(unwrap_or_0(page))

\* AnnoIter::new from its await on: the response arrives.
AnnoIter_new_recv ==
    /\ pc = "fetching"
    /\ LET r == AnnoIter_new_result(read_search_result_page(SomePage(start_page)),
                                    start_page)
       IN /\ newResult' = r
          /\ cur_page' = IF r.kind = "Ok" THEN r.iter.cur_page ELSE cur_page
          /\ cur_anno' = IF r.kind = "Ok" THEN r.iter.cur_anno ELSE cur_anno
          /\ annotations' = IF r.kind = "Ok" THEN r.iter.annotations ELSE annotations
    /\ pc' = "done"
    /\ inflight' = inflight - 1
    /\ UNCHANGED <<pages, start_page, lastNext, yielded, fetched, foreachResult,
                   clientVars>>

\* next() that asks the server for page cur_page + 1 whenever the buffer is
\* empty, with nothing recording that the results had ended.
AnnoIter_next_refetch ==
    /\ pc = "done"
    /\ newResult.kind = "Ok"
    /\ LET refill == annotations = <<>>
           resp == read_search_result_page(SomePage(cur_page + 1))
           items == IF resp.t = "ok" THEN Index(resp.body, "items") ELSE Null
           queue == IF refill
                    THEN (IF items.t = "array" THEN items.a ELSE <<>>)
                    ELSE annotations
           popped == pop_front(queue)
       IN /\ annotations' = popped.rest
          /\ lastNext' = popped.item
          /\ yielded' = IF popped.item.t = "Some"
                        THEN Append(yielded, popped.item.v)
                        ELSE yielded
          /\ fetched' = IF refill THEN Append(fetched, cur_page + 1) ELSE fetched
          /\ cur_page' = IF refill /\ queue # <<>> THEN cur_page + 1 ELSE cur_page
    /\ UNCHANGED <<pages, pc, start_page, newResult, cur_anno,
                   inflight, foreachResult, clientVars>>

\* Iterator::next for AnnoIter.
AnnoIter_next ==
    /\ pc = "done"
    /\ newResult.kind = "Ok"
    /\ LET popped == pop_front(annotations)
       IN /\ annotations' = popped.rest
          /\ lastNext' = popped.item
          /\ yielded' = IF popped.item.t = "Some"
                        THEN Append(yielded, popped.item.v)
                        ELSE yielded
    /\ UNCHANGED <<pages, pc, start_page, newResult, cur_page, cur_anno,
                   fetched, inflight, foreachResult, clientVars>>

foreach_search_result_annotation ==
    \E page \in PageArgs :
        /\ LET r == foreach_result(read_search_result_page(page))
           IN foreachResult' = [page |-> page, result |-> r.result, visited |-> r.visited]
        /\ UNCHANGED <<pages, pc, start_page, newResult, cur_page, cur_anno,
                       annotations, lastNext, yielded, fetched, inflight, clientVars>>

Next ==
    \/ AnnoIter_new
    \/ read_search_result_annotations
    \/ AnnoIter_new_recv
    \/ AnnoIter_next
    \/ foreach_search_result_annotation

Spec == Init /\ [][Next]_vars

\* The caller keeps calling next() on the iterator it holds.
FairSpec == Spec /\ WF_vars(AnnoIter_next)


(***************************************************************************)
(* The repository client.  A string is a sequence of one-character         *)
(* strings, so that formatting is concatenation and nothing else.          *)
(***************************************************************************)
BaseChars == {"h", "/", " "}
ContainerChars == {"c", " "}
BaseUrls == SeqsUpTo(BaseChars, MaxLen)
Containers == SeqsUpTo(ContainerChars, MaxLen)
FieldNames == {<<>>, <<"x">>, <<"a", "/">>}

SlashServicesSlash == <<"/", "s", "e", "r", "v", "i", "c", "e", "s", "/">>
Slash == <<"/">>
EndpointFields == <<"f", "i", "e", "l", "d", "s">>
EndpointIndexes == <<"i", "n", "d", "e", "x", "e", "s">>
EndpointDistinctValues ==
    <<"d", "i", "s", "t", "i", "n", "c", "t", "-", "v", "a", "l", "u", "e", "s">>
EndpointSearch == <<"s", "e", "a", "r", "c", "h">>
SlashAbout == <<"/", "a", "b", "o", "u", "t">>

\* base_url with the '/' at its end dropped: a normalising constructor.
AnnoRepoClient_new_trimmed(base_url, container) ==
    [base_url |-> IF base_url # <<>> /\ base_url[Len(base_url)] = "/"
                  THEN SubSeq(base_url, 1, Len(base_url) - 1)
                  ELSE base_url,
     container |-> container,
     built |-> TRUE]

\* AnnoRepoClient::new: the struct it returns inside Ok.  The HTTP client it
\* builds takes no part in any URL and is left out.
AnnoRepoClient_new_value(base_url, container) ==
    [base_url |-> base_url, container |-> container, built |-> TRUE]

\* format!("{base}/services/{container}/{endpoint}")
resolve_service(endpoint) ==
    client.base_url \o SlashServicesSlash \o client.container \o Slash \o endpoint

\* format!("{base}/services/{container}/{endpoint}/{param}")
resolve_service_param(endpoint, param) ==
    client.base_url \o SlashServicesSlash \o client.container \o Slash \o endpoint
        \o Slash \o param

\* client_get_json: send().await?.json().await? passes the body or the error on.
GetResponses == {TransportErr, Body(Null), Body(Str("x"))}
client_get_json(resp) ==
    IF resp.t = "err" THEN ErrReqError ELSE [kind |-> "Ok", json |-> resp.body]

(***************************************************************************)
(* The Location header of the response to the search-creation POST: absent *)
(* or a HeaderValue, a sequence of bytes that need not be visible ASCII.   *)
(***************************************************************************)
VisibleAscii == {"a", "/"}
HeaderBytes == VisibleAscii \cup {"0xFF"}
NoHeader == [t |-> "absent"]
Header(h) == [t |-> "header", value |-> h]
PostResponses ==
    {TransportErr, [t |-> "ok", location |-> NoHeader]}
        \cup {[t |-> "ok", location |-> Header(h)] : h \in SeqsUpTo(HeaderBytes, MaxLoc)}

\* HeaderValue::to_str: Err unless every byte is visible ASCII.
to_str(h) ==
    IF \A i \in 1..Len(h) : h[i] \in VisibleAscii
    THEN [t |-> "Ok", s |-> h]
    ELSE [t |-> "Err"]

\* str::rsplit_once: the text before and after the last occurrence of c.
rsplit_once(s, c) ==
    LET at == {i \in 1..Len(s) : s[i] = c}
    IN IF at = {}
       THEN [t |-> "None"]
       ELSE LET i == CHOOSE i \in at : \A j \in at : j <= i
            IN [t |-> "Some", before |-> SubSeq(s, 1, i - 1),
                after |-> SubSeq(s, i + 1, Len(s))]

\* SearchInfo::new never fails.
SearchInfo_new(search_id, location) ==
    [kind |-> "Ok", search_id |-> search_id, location |-> location]

\* create_search once the POST has been answered with resp.
create_search_result(resp) ==
    IF resp.t = "err"
    THEN ErrReqError
    ELSE IF resp.location.t = "header"
         THEN LET location == to_str(resp.location.value)
              IN IF location.t = "Err"
                 THEN Panic                    \* expect("Header must be valid unicode")
                 ELSE LET split == rsplit_once(location.s, "/")
                      IN IF split.t = "None"
                         THEN Panic            \* unwrap() on None
                         ELSE SearchInfo_new(split.after, location.s)
         ELSE ErrUrlNotFound

AnnoRepoClient_new ==
    \E base_url \in BaseUrls, container \in Containers :
        /\ ~client.built
        /\ client' = AnnoRepoClient_new_value(base_url, container)
        /\ given' = [base_url |-> base_url, container |-> container]
        /\ UNCHANGED <<out, iterVars>>

get_about ==
    \E resp \in GetResponses :
        /\ client.built
        /\ out' = [op |-> "get_about", endpoint |-> <<>>, param |-> <<>>,
                   url |-> client.base_url \o SlashAbout,
                   result |-> client_get_json(resp)]
        /\ UNCHANGED <<client, given, iterVars>>

get_fields ==
    \E resp \in GetResponses :
        /\ client.built
        /\ out' = [op |-> "get_fields", endpoint |-> EndpointFields, param |-> <<>>,
                   url |-> resolve_service(EndpointFields),
                   result |-> client_get_json(resp)]
        /\ UNCHANGED <<client, given, iterVars>>

get_indexes ==
    \E resp \in GetResponses :
        /\ client.built
        /\ out' = [op |-> "get_indexes", endpoint |-> EndpointIndexes, param |-> <<>>,
                   url |-> resolve_service(EndpointIndexes),
                   result |-> client_get_json(resp)]
        /\ UNCHANGED <<client, given, iterVars>>

get_distinct_values ==
    \E field \in FieldNames, resp \in GetResponses :
        /\ client.built
        /\ out' = [op |-> "get_distinct_values", endpoint |-> EndpointDistinctValues,
                   param |-> field,
                   url |-> resolve_service_param(EndpointDistinctValues, field),
                   result |-> client_get_json(resp)]
        /\ UNCHANGED <<client, given, iterVars>>

create_search ==
    \E resp \in PostResponses :
        /\ client.built
        /\ out' = [op |-> "create_search", endpoint |-> EndpointSearch, param |-> <<>>,
                   url |-> resolve_service(EndpointSearch),
                   response |-> resp,
                   result |-> create_search_result(resp)]
        /\ UNCHANGED <<client, given, iterVars>>

ClientSpecInit ==
    /\ pages = [p \in 0..MaxPage |-> EmptyPage]
    /\ IterInit
    /\ ClientInit

ClientNext ==
    \/ AnnoRepoClient_new
    \/ get_about
    \/ get_fields
    \/ get_indexes
    \/ get_distinct_values
    \/ create_search

SpecClient == ClientSpecInit /\ [][ClientNext]_vars

(***************************************************************************)
(* Vocabulary of the properties.                                           *)
(***************************************************************************)
\* AnnoIter::new has returned an iterator.
Ready == pc = "done" /\ newResult.kind = "Ok"

\* What the server holds at page p.
ServerPage(p) == read_search_result_page(SomePage(p))

\* The response is a page whose items field is an array.
IsArrayPage(resp) == resp.t = "ok" /\ Index(resp.body, "items").t = "array"

ItemsOf(resp) == IF IsArrayPage(resp) THEN Index(resp.body, "items").a ELSE <<>>

IsMalformedPage(resp) == resp.t = "ok" /\ ~IsArrayPage(resp)

\* The items of pages from..to, in increasing page number.
RECURSIVE ConcatPages(_, _)
ConcatPages(from, to) ==
    IF from > to THEN <<>>
    ELSE ItemsOf(ServerPage(from)) \o ConcatPages(from + 1, to)

\* Pages sp .. sp+n hold non-empty items arrays and page sp+n+1 an empty one.
ResultSet(sp, n) ==
    /\ \A k \in 0..n : IsArrayPage(ServerPage(sp + k)) /\ ItemsOf(ServerPage(sp + k)) # <<>>
    /\ IsArrayPage(ServerPage(sp + n + 1))
    /\ ItemsOf(ServerPage(sp + n + 1)) = <<>>

\* The items of the pages listed in log, in that order.
RECURSIVE ConcatFetched(_)
ConcatFetched(log) ==
    IF log = <<>> THEN <<>>
    ELSE ItemsOf(ServerPage(Head(log))) \o ConcatFetched(Tail(log))

\* The iterator has seen a page with an empty items array.
SawEmptyPage ==
    \E i \in 1..Len(fetched) :
        IsArrayPage(ServerPage(fetched[i])) /\ ItemsOf(ServerPage(fetched[i])) = <<>>

Terminated == Ready /\ (lastNext = NoneItem \/ SawEmptyPage)

(***************************************************************************)
(* C1: over a result set of n+1 non-empty pages followed by an empty page, *)
(* an iterator driven to end-of-sequence has yielded the items of all n+1  *)
(* pages in page order and has fetched exactly pages start_page ..         *)
(* start_page+n+1.                                                         *)
(***************************************************************************)
C1_AllPagesYielded ==
    \A n \in 0..MaxPage :
        (Ready /\ lastNext = NoneItem /\ ResultSet(start_page, n))
            => /\ yielded = ConcatPages(start_page, start_page + n)
               /\ fetched = [i \in 1..(n + 2) |-> start_page + i - 1]

(***************************************************************************)
(* C2: when the page fetched at construction has no items array,           *)
(* AnnoIter::new returns MalformedAnnotationPage carrying exactly the      *)
(* payload the server sent.                                                *)
(***************************************************************************)
C2_PayloadPreserved ==
    (pc = "done" /\ IsMalformedPage(ServerPage(start_page)))
        => newResult = ErrMalformedAnnotationPage(ServerPage(start_page).body)

(***************************************************************************)
(* C3: a transport failure of the page fetch made by AnnoIter::new or by   *)
(* foreach_search_result_annotation is returned as an error value.         *)
(***************************************************************************)
C3_TransportErrorReturned ==
    /\ (pc = "done" /\ ServerPage(start_page).t = "err")
            => newResult = ErrReqError
    /\ (foreachResult.result # NotCalled
            /\ read_search_result_page(foreachResult.page).t = "err")
            => foreachResult.result = ErrReqError

(***************************************************************************)
(* C6: once the iterator has seen an empty page or returned                *)
(* end-of-sequence it stays terminated: no later step fetches a page or    *)
(* yields an item, every later next() returns end-of-sequence; and an      *)
(* iterator that keeps being driven reaches end-of-sequence.               *)
(***************************************************************************)
C6_TerminatedForGood ==
    /\ [][Terminated => /\ Terminated'
                        /\ fetched' = fetched
                        /\ yielded' = yielded
                        /\ lastNext' \in {lastNext, NoneItem}]_vars
    /\ (Ready ~> (lastNext = NoneItem))

\* An iterator that yielded items and then reported end-of-sequence.
C6_Witness == Terminated /\ lastNext = NoneItem /\ yielded # <<>>

(***************************************************************************)
(* C7: when the page after the construction page is malformed, next()      *)
(* does not report end-of-sequence as if the results were exhausted.       *)
(***************************************************************************)
C7_MalformedPageReported ==
    (Ready /\ ItemsOf(ServerPage(start_page)) # <<>>
           /\ IsMalformedPage(ServerPage(start_page + 1)))
        => lastNext # NoneItem

(***************************************************************************)
(* C8: the items returned so far followed by the buffered queue are the    *)
(* items of the pages fetched so far, in server order: the returned items  *)
(* are a prefix of them and the queue is the unreturned rest of the most   *)
(* recently fetched page.                                                  *)
(***************************************************************************)
C8_ServerOrder ==
    Ready =>
        LET last == ItemsOf(ServerPage(fetched[Len(fetched)]))
            earlier == ConcatFetched(SubSeq(fetched, 1, Len(fetched) - 1))
        IN \E k \in 0..Len(last) :
              /\ yielded = earlier \o SubSeq(last, 1, k)
              /\ annotations = SubSeq(last, k + 1, Len(last))
              /\ (lastNext.t = "Some" => k > 0 /\ lastNext.v = last[k])

\* One of two different items has been returned, the other is still buffered.
C8_Witness ==
    /\ Ready
    /\ Len(yielded) = 1
    /\ Len(annotations) = 1
    /\ yielded[1] # annotations[1]
    /\ lastNext = SomeItem(yielded[1])

(***************************************************************************)
(* C9: cur_page is start_page after construction and start_page plus the   *)
(* number of fetches made since; it never decreases; a fetch is issued     *)
(* only with an empty queue and no other fetch in flight, for start_page   *)
(* at construction and for cur_page + 1 afterwards.                        *)
(***************************************************************************)
C9_PageCursor ==
    /\ [](/\ Ready => cur_page = start_page + Len(fetched) - 1
          /\ inflight \in {0, 1}
          /\ \A i \in 1..Len(fetched) : fetched[i] = start_page + i - 1)
    /\ [][/\ cur_page' >= cur_page
          /\ fetched' # fetched =>
                /\ inflight = 0
                /\ annotations = <<>>
                /\ fetched' = Append(fetched, IF fetched = <<>> THEN start_page'
                                                                ELSE cur_page + 1)]_vars

\* An iterator started at page 1 that has handed out an item.
C9_Witness == Ready /\ start_page = 1 /\ cur_page = 1 /\ yielded # <<>>


\* The text after the last '/' of s (all of s when it holds none).
RECURSIVE AfterLastSlash(_)
AfterLastSlash(s) ==
    IF s = <<>> \/ s[Len(s)] = "/" THEN <<>>
    ELSE Append(AfterLastSlash(SubSeq(s, 1, Len(s) - 1)), s[Len(s)])

(***************************************************************************)
(* C4: whatever the response to the search-creation POST, create_search    *)
(* returns a value, a Search Handle or an error: it never panics.          *)
(***************************************************************************)
C4_CreateSearchReturns ==
    out.op = "create_search" => out.result.kind \in {"Ok", "Err"}

(***************************************************************************)
(* C5: when the POST is answered, create_search returns UrlNotFound if and *)
(* only if the response has no Location header; otherwise a Search Handle  *)
(* whose location is the header value and whose search_id is the text      *)
(* after the value's last '/'.                                             *)
(***************************************************************************)
C5_HandleFromLocation ==
    (out.op = "create_search" /\ out.response.t = "ok") =>
        IF out.response.location.t = "absent"
        THEN out.result = ErrUrlNotFound
        ELSE out.result = [kind |-> "Ok",
                           search_id |-> AfterLastSlash(out.response.location.value),
                           location |-> out.response.location.value]

(***************************************************************************)
(* C10: the client holds base_url and container exactly as given to        *)
(* AnnoRepoClient::new, no later operation changes them, and every         *)
(* resolved URL is base_url + "/services/" + container + "/" + endpoint    *)
(* [+ "/" + param] over the strings as given.                              *)
(***************************************************************************)
C10_ClientAsGiven ==
    /\ [](client.built =>
            /\ client.base_url = given.base_url
            /\ client.container = given.container
            /\ out.op \in {"get_fields", "get_indexes", "create_search"} =>
                  out.url = given.base_url \o SlashServicesSlash \o given.container
                                \o Slash \o out.endpoint
            /\ out.op = "get_distinct_values" =>
                  out.url = given.base_url \o SlashServicesSlash \o given.container
                                \o Slash \o out.endpoint \o Slash \o out.param)
    /\ [][client.built => client' = client]_vars

\* A client whose base_url ends in '/' and whose container is a blank has
\* resolved a URL with a parameter.
C10_Witness ==
    /\ client.built
    /\ given.base_url = <<"/">>
    /\ given.container = <<" ">>
    /\ out.op = "get_distinct_values"
    /\ out.param = <<"x">>
    /\ Len(out.url) = Len(given.base_url) + Len(given.container) + 28

====
